---- MODULE Spec2Model ----
(***************************************************************************)
(* Download queue and transfer engine of src/App.tsx.                      *)
(*                                                                         *)
(* React state and closures.  `downloads` is the latest value of the React *)
(* state: every setDownloads(prev => ...) of the source is applied to it   *)
(* in call order.  `rendered` is the value of `downloads` that the         *)
(* closures of the last committed render captured: requestDownload,        *)
(* handleExport, clearCompleted and the Queue Processor effect read it.    *)
(* A user handler runs as one step together with the microtasks it         *)
(* resolves (the catch/finally of a transfer whose pending fetch/read was  *)
(* rejected by controller.abort()) and with the synchronous re-render and  *)
(* effect flush that React performs at the end of a discrete event.        *)
(* Updates made by asynchronous continuations and by the effect itself are *)
(* rendered by a later step, Render.  A page reload (Restart) mounts the   *)
(* component again with the collection the persist effect stored.          *)
(*                                                                         *)
(* Sizes are kept in MB as the source does; chunks are whole MiB so that   *)
(* receivedLength / (1024 * 1024) is an integer.  `expiry` and the toasts  *)
(* other than handleExport's results are not modelled: no operation reads  *)
(* them.                                                                   *)
(***************************************************************************)
EXTENDS Integers, Sequences, FiniteSets, TLC

\* ---------------------------------------------------------------- bounds
NumMovies == 3
MaxAttempts == 3
MaxChunks == 1
MaxPendingDeletes == 2
MaxPendingClears == 1
MaxPendingExports == 1
\* user actions and injected failures (rejections) explored per behaviour
MaxUserOps == 4
MaxFaults == 1

BytesPerMB == 1048576

Movies == 1..NumMovies
\* the catalog the component is mounted with; the last movie is one that the
\* admin panel adds (setMovies([...movies, m])), which a page reload forgets
INITIAL_MOVIES == 1..(NumMovies - 1)
NoController == 0
NoBlob == -1

\* The catalog's video files.  Every body is MaxChunks chunks long.  Movie 1 is
\* served with its Content-Length, movie 2 without one, and every other movie
\* with a Content-Length smaller than the bytes the stream delivers (a
\* compressed response: the header counts the encoded bytes).
ChunkBytes(m) == IF m <= 2 THEN BytesPerMB ELSE 2 * BytesPerMB
BodyLength(m) == MaxChunks * ChunkBytes(m)
ContentLength(m) == IF m = 1 THEN BodyLength(m) ELSE IF m = 2 THEN 0 ELSE MaxChunks * BytesPerMB

VARIABLES
    downloads,           \* React state: sequence of DownloadItem
    rendered,            \* `downloads` as captured by the last render
    activeDownloadsRef,  \* movie id -> attempt whose AbortController is registered
    transfers,           \* executeDownload invocations, in start order
    blobs,               \* blob store: movie id -> blob size in bytes
    deleting,            \* deleteDownload invocations suspended at an await
    clearing,            \* clearCompleted invocations suspended at an await
    exporting,           \* handleExport invocations suspended at getVideo
    exportToast,         \* the toast of the last handleExport that returned
    movies,              \* React state: ids of the catalog's movies
    userOps,             \* number of user actions so far
    faults,              \* number of rejected fetch/read/blob-store calls so far
    requestOrder,        \* history: tracked movie ids by time of their request
    mark                 \* history: the last cancellation of each movie

vars == <<downloads, rendered, activeDownloadsRef, transfers, blobs, deleting, clearing,
          exporting, exportToast,
          movies, userOps, faults, requestOrder, mark>>

\* ------------------------------------------------------- array helpers
MapSeq(s, F(_)) == [i \in 1..Len(s) |-> F(s[i])]

HasEntry(dl, m) == \E i \in 1..Len(dl) : dl[i].movieId = m

\* downloads.find(d => d.movieId === m)
Find(dl, m) == dl[CHOOSE i \in 1..Len(dl) : dl[i].movieId = m /\ \A j \in 1..(i-1) : dl[j].movieId # m]

StatusOf(dl, m) == IF HasEntry(dl, m) THEN Find(dl, m).status ELSE "none"

\* downloads.filter(d => d.status === 'downloading').length
activeCount(dl) == Cardinality({i \in 1..Len(dl) : dl[i].status = "downloading"})

HasQueued(dl) == \E i \in 1..Len(dl) : dl[i].status = "queued"

\* mutant of nextInQueue: the most recently queued entry is taken
nextInQueueNewest(dl) == dl[CHOOSE i \in 1..Len(dl) : dl[i].status = "queued" /\ \A j \in (i+1)..Len(dl) : dl[j].status # "queued"]

\* downloads.find(d => d.status === 'queued')
nextInQueue(dl) == dl[CHOOSE i \in 1..Len(dl) : dl[i].status = "queued" /\ \A j \in 1..(i-1) : dl[j].status # "queued"]

\* receivedLength / (1024 * 1024)
ToMB(bytes) == bytes \div BytesPerMB

\* (receivedLength / totalLength) * 100
Percent(received, total) == (received * 100) \div total

\* ---------------------------------------------------- state updaters
\* mutant of NewItem: every new entry is admitted at once
NewItemAdmitted(m, active) ==
    [movieId |-> m, progress |-> 0, status |-> "downloading",
     totalSizeMB |-> 0, downloadedSizeMB |-> 0, speed |-> 0]

\* the DownloadItem built by requestDownload
NewItem(m, active) ==
    [movieId |-> m, progress |-> 0,
     status |-> IF active = 0 THEN "downloading" ELSE "queued",
     totalSizeMB |-> 0, downloadedSizeMB |-> 0, speed |-> 0]

\* mutant of AppendNew: the previous entry of the movie is kept
AppendNewKeepsOld(prev, item) == Append(prev, item)

\* setDownloads(prev => [...prev.filter(d => d.movieId !== movie.id), newItem])
AppendNew(prev, item) ==
    Append(SelectSeq(prev, LAMBDA d : d.movieId # item.movieId), item)

\* setDownloads(prev => prev.map(d => d.movieId === movie.id ? {...d, status: 'downloading'} : d))
SetDownloading(prev, m) ==
    MapSeq(prev, LAMBDA d : IF d.movieId = m THEN [d EXCEPT !.status = "downloading"] ELSE d)

\* setDownloads(prev => prev.map(d => d.movieId === movie.id ? {...d, totalSizeMB} : d))
SetTotal(prev, m, totalMB) ==
    MapSeq(prev, LAMBDA d : IF d.movieId = m THEN [d EXCEPT !.totalSizeMB = totalMB] ELSE d)

\* the throttled progress publication of the read loop
Publish(prev, m, received, total) ==
    MapSeq(prev, LAMBDA d :
        IF d.movieId = m
        THEN [d EXCEPT !.progress = IF total > 0 THEN Percent(received, total) ELSE 0,
                       !.downloadedSizeMB = ToMB(received),
                       !.totalSizeMB = IF total > 0 THEN ToMB(total) ELSE ToMB(received),
                       !.speed = 1]
        ELSE d)

\* setDownloads after saveVideo and updateStorageEstimate have resolved
Completed(prev, m) ==
    MapSeq(prev, LAMBDA d :
        IF d.movieId = m THEN [d EXCEPT !.status = "completed", !.progress = 100, !.speed = 0] ELSE d)

\* mutant of AbortedUpdate: the catch does not tell an AbortError from other errors
AbortedUpdateFails(prev, m) ==
    MapSeq(prev, LAMBDA d :
        IF d.movieId = m THEN [d EXCEPT !.status = "failed", !.speed = 0] ELSE d)

\* catch, err.name === 'AbortError'
AbortedUpdate(prev, m) ==
    MapSeq(prev, LAMBDA d :
        IF d.movieId = m /\ d.status = "downloading"
        THEN [d EXCEPT !.status = "paused", !.speed = 0] ELSE d)

\* catch, any other error
FailedUpdate(prev, m) ==
    MapSeq(prev, LAMBDA d :
        IF d.movieId = m THEN [d EXCEPT !.status = "failed", !.speed = 0] ELSE d)

\* setDownloads of pauseDownload
PausedUpdate(prev, m) ==
    MapSeq(prev, LAMBDA d :
        IF d.movieId = m THEN [d EXCEPT !.status = "paused", !.speed = 0] ELSE d)

\* setDownloads(prev => prev.filter(d => d.movieId !== movieId))
RemoveEntry(prev, m) == SelectSeq(prev, LAMBDA d : d.movieId # m)

\* setDownloads(prev => prev.filter(d => d.status !== 'completed'))
RemoveCompleted(prev) == SelectSeq(prev, LAMBDA d : d.status # "completed")

\* finally { activeDownloadsRef.current.delete(movie.id) }
FinallyRelease(ref, m) == [ref EXCEPT ![m] = NoController]

\* const completed = downloads.filter(d => d.status === 'completed'), as ids
CompletedIds(dl) ==
    LET c == SelectSeq(dl, LAMBDA d : d.status = "completed")
    IN  [i \in 1..Len(c) |-> c[i].movieId]

\* -------------------------------------------- the engine, as functions
\* A world is the part of the state the synchronous code paths share:
\* [dl: downloads, ref: activeDownloadsRef, xf: transfers].
World == [dl |-> downloads, ref |-> activeDownloadsRef, xf |-> transfers]

\* An executeDownload invocation: its movie, its call site (`by`), the await it
\* is suspended at (`pc`), its locals and, once it has returned, how it ended.
Attempt(m, by) ==
    [movie |-> m, by |-> by, pc |-> "fetch", receivedLength |-> 0, totalLength |-> 0,
     outcome |-> "running"]

Ended(t, how) ==
    [movie |-> t.movie, by |-> "ended", pc |-> "done", receivedLength |-> 0, totalLength |-> 0,
     outcome |-> how]

\* executeDownload up to its first await (the fetch)
executeDownload(w, m, by) ==
    [dl  |-> SetDownloading(w.dl, m),
     ref |-> [w.ref EXCEPT ![m] = Len(w.xf) + 1],
     xf  |-> Append(w.xf, Attempt(m, by))]

\* Queue Processor effect, run with the `downloads` (`snap`) and the `movies`
\* (`catalog`) of the render
QueueProcessor(w, snap, catalog) ==
    IF activeCount(snap) = 0 /\ HasQueued(snap) /\ nextInQueue(snap).movieId \in catalog
    THEN executeDownload(w, nextInQueue(snap).movieId, "queue")
    ELSE w

\* controller.abort() of attempt c: a pending fetch or read rejects with
\* AbortError and the catch and finally blocks of that attempt run; an
\* attempt awaiting saveVideo or updateStorageEstimate is not interrupted.
AbortRejection(w, c) ==
    IF w.xf[c].pc \in {"fetch", "read"}
    THEN [dl  |-> AbortedUpdate(w.dl, w.xf[c].movie),
          ref |-> FinallyRelease(w.ref, w.xf[c].movie),
          xf  |-> [w.xf EXCEPT ![c] = Ended(w.xf[c], "aborted")]]
    ELSE w

\* if (controller) { controller.abort(); activeDownloadsRef.current.delete(movieId) }
AbortIfRunning(w, m) == [w EXCEPT !.ref[m] = NoController]

pauseDownload(w, m) ==
    LET c  == w.ref[m]
        w1 == IF c # NoController THEN AbortIfRunning(w, m) ELSE w
        w2 == [w1 EXCEPT !.dl = PausedUpdate(w1.dl, m)]
    IN  IF c # NoController THEN AbortRejection(w2, c) ELSE w2

\* deleteDownload up to its first await (deleteVideo)
deleteDownloadSync(w, m) ==
    LET c == w.ref[m]
    IN  IF c # NoController THEN AbortRejection(AbortIfRunning(w, m), c) ELSE w

\* requestDownload when it does not return early; `snap` is the closure's
\* downloads.  deleteDownload(movie.id, false) runs up to its await inside the
\* call; the rejection it causes is handled after requestDownload has returned.
requestDownload(w, snap, m) ==
    LET c    == IF StatusOf(snap, m) = "paused" THEN w.ref[m] ELSE NoController
        w1   == IF c # NoController THEN AbortIfRunning(w, m) ELSE w
        item == NewItem(m, activeCount(snap))
        w2   == [w1 EXCEPT !.dl = AppendNew(w1.dl, item)]
        w3   == IF activeCount(snap) > 0 THEN w2 ELSE executeDownload(w2, m, "request")
    IN  IF c # NoController THEN AbortRejection(w3, c) ELSE w3

\* commit of a render followed by the flush of the Queue Processor effect
Commit(w, catalog) == QueueProcessor(w, w.dl, catalog)

Install(w) ==
    /\ Len(w.xf) <= MaxAttempts
    /\ downloads' = w.dl
    /\ activeDownloadsRef' = w.ref
    /\ transfers' = w.xf

\* ------------------------------------------------------------ initial
InitWith(catalog) ==
    /\ movies = catalog
    /\ requestOrder = << >>
    /\ mark = [m \in Movies |-> "none"]
    /\ downloads = << >>
    /\ rendered = << >>
    /\ activeDownloadsRef = [m \in Movies |-> NoController]
    /\ transfers = << >>
    /\ blobs = [m \in Movies |-> NoBlob]
    /\ deleting = {}
    /\ clearing = {}
    /\ exporting = {}
    /\ exportToast = "none"
    /\ userOps = 0
    /\ faults = 0

\* the component as mounted / after the admin panel has added the last movie
Init == InitWith(INITIAL_MOVIES)
InitFull == InitWith(Movies)

Click == userOps < MaxUserOps /\ userOps' = userOps + 1 /\ UNCHANGED <<faults, movies>>
Rejected == faults < MaxFaults /\ faults' = faults + 1 /\ UNCHANGED <<userOps, movies>>
UserOp == Click /\ UNCHANGED <<exporting, exportToast>>
Fault == Rejected /\ UNCHANGED <<exporting, exportToast>>
Step == UNCHANGED <<userOps, faults, movies, exporting, exportToast>>

\* ---------------------------------------------------- history variables
\* requestOrder lists the tracked ids, oldest request first.
Ids(dl) == {dl[i].movieId : i \in 1..Len(dl)}
Tracked(order, dl) == SelectSeq(order, LAMBDA m : m \in Ids(dl))
Requested(order, m) == Append(SelectSeq(order, LAMBDA x : x # m), m)

\* mark[m]: "pausing"  pauseDownload(m) was the previous step and m was downloading
\*          "paused"   m was paused while downloading and not requested since
\*          "resumed"  requestDownload(m) directly followed that pauseDownload(m)
\*          "removing" deleteDownload(m) was called while m was downloading
\*          "removed"  that deleteDownload(m) has finished, its deleteVideo resolved
\*          "cancelling" deleteDownload(m) was called while m was queued
\*          "cancelled"  that deleteDownload(m) has finished
\*          "deleteFailed" a deleteDownload(m) removed m's entry after its
\*                     deleteVideo had rejected
\*          "none"     otherwise; requestDownload(m) creating an entry resets it
Aged(mk) == [m \in Movies |-> IF mk[m] = "pausing" THEN "paused" ELSE mk[m]]
Downloading(m) == StatusOf(downloads, m) = "downloading"
InFlight(m) ==
    /\ activeDownloadsRef[m] # NoController
    /\ transfers[activeDownloadsRef[m]].pc # "done"
History(order, mk) ==
    /\ requestOrder' = Tracked(order, downloads')
    /\ mark' = mk
Observe == History(requestOrder, Aged(mark))

\* mark after the deleteDownload invocation `op` has returned; `how` tells
\* whether its deleteVideo resolved ("removed") or rejected ("deleteFailed")
AfterDelete(op, how) ==
    IF ~op.removeMetadata THEN Aged(mark)
    ELSE IF mark[op.movieId] = "cancelling" THEN [Aged(mark) EXCEPT ![op.movieId] = "cancelled"]
    ELSE IF mark[op.movieId] = "removing" \/ (how = "deleteFailed" /\ mark[op.movieId] = "none")
         THEN [Aged(mark) EXCEPT ![op.movieId] = how]
    ELSE Aged(mark)

DeleteOp(m, meta) == [movieId |-> m, removeMetadata |-> meta, pc |-> "deleteVideo"]

\* ------------------------------------------------------ user actions
\* the world after requestDownload(m) and the re-render it causes;
\* `if (existing) return` leaves the world as it is
RequestOutcome(m) ==
    IF HasEntry(rendered, m) /\ StatusOf(rendered, m) # "paused"
    THEN World
    ELSE Commit(requestDownload(World, rendered, m), movies)

RequestDownload(m) ==
    IF HasEntry(rendered, m) /\ StatusOf(rendered, m) # "paused"
    THEN UNCHANGED vars
    ELSE /\ UserOp
         /\ Install(RequestOutcome(m))
         /\ rendered' = requestDownload(World, rendered, m).dl
         /\ deleting' = IF StatusOf(rendered, m) = "paused"
                        THEN deleting \cup {DeleteOp(m, FALSE)} ELSE deleting
         /\ Cardinality(deleting') <= MaxPendingDeletes
         /\ UNCHANGED <<blobs, clearing>>
         /\ History(Requested(requestOrder, m),
                    [Aged(mark) EXCEPT ![m] = IF mark[m] = "pausing" THEN "resumed" ELSE "none"])

\* the world after pauseDownload(m) and the re-render it causes
PauseOutcome(m) == Commit(pauseDownload(World, m), movies)

\* the Pause button of a listed item
PauseDownload(m) ==
    /\ HasEntry(rendered, m)
    /\ UserOp
    /\ Install(PauseOutcome(m))
    /\ rendered' = pauseDownload(World, m).dl
    /\ UNCHANGED <<blobs, deleting, clearing>>
    /\ History(requestOrder,
               IF Downloading(m) /\ InFlight(m)
               THEN [Aged(mark) EXCEPT ![m] = "pausing"] ELSE Aged(mark))

\* the Remove / Cancel Queue button of a listed item: deleteDownload(movieId),
\* removeMetadata defaults to true
DeleteDownload(m) ==
    LET w == deleteDownloadSync(World, m)
        interrupted == activeDownloadsRef[m] # NoController
                       /\ transfers[activeDownloadsRef[m]].pc \in {"fetch", "read"}
    IN  /\ HasEntry(rendered, m)
        /\ UserOp
        /\ IF interrupted
           THEN Install(Commit(w, movies)) /\ rendered' = w.dl
           ELSE Install(w) /\ UNCHANGED rendered
        /\ deleting' = deleting \cup {DeleteOp(m, TRUE)}
        /\ Cardinality(deleting') <= MaxPendingDeletes
        /\ UNCHANGED <<blobs, clearing>>
        /\ History(requestOrder,
                   IF Downloading(m) THEN [Aged(mark) EXCEPT ![m] = "removing"]
                   ELSE IF StatusOf(downloads, m) = "queued"
                        THEN [Aged(mark) EXCEPT ![m] = "cancelling"]
                        ELSE Aged(mark))

\* the "Clear all completed" button
ClearCompleted ==
    /\ \E i \in 1..Len(rendered) : rendered[i].status = "completed"
    /\ UserOp
    /\ Cardinality(clearing) < MaxPendingClears
    /\ clearing' = clearing \cup {[todo |-> CompletedIds(rendered)]}
    /\ UNCHANGED <<downloads, rendered, activeDownloadsRef, transfers, blobs, deleting>>
    /\ Observe

\* ------------------------------------------------------- handleExport
\* const item = downloads.find(...); if (!item || item.status !== 'completed') return
ExportProceeds(snap, m) == HasEntry(snap, m) /\ StatusOf(snap, m) = "completed"

\* the toast after getVideo has resolved with `blob`
ExportToast(blob) ==
    IF blob # NoBlob THEN "Saved to Device Downloads" ELSE "File not found in storage"

\* handleExport(movie) up to `await getVideo(movie.id)`
HandleExport(m) ==
    IF ~ExportProceeds(rendered, m)
    THEN UNCHANGED vars
    ELSE /\ Click
         /\ Cardinality(exporting) < MaxPendingExports
         /\ exporting' = exporting \cup {m}
         /\ UNCHANGED <<downloads, rendered, activeDownloadsRef, transfers, blobs, deleting,
                        clearing, exportToast>>
         /\ Observe

\* getVideo resolves with the stored blob or with nothing
ExportResolve(m) ==
    /\ m \in exporting
    /\ exporting' = exporting \ {m}
    /\ exportToast' = ExportToast(blobs[m])
    /\ UNCHANGED <<downloads, rendered, activeDownloadsRef, transfers, blobs, deleting,
                   clearing, userOps, faults, movies>>
    /\ Observe

\* getVideo rejects: the catch reports the failure
ExportReject(m) ==
    /\ Rejected
    /\ m \in exporting
    /\ exporting' = exporting \ {m}
    /\ exportToast' = "Failed to export"
    /\ UNCHANGED <<downloads, rendered, activeDownloadsRef, transfers, blobs, deleting, clearing>>
    /\ Observe

\* --------------------------------------------------------- rendering
\* React renders the updates queued by asynchronous code and by the effect
Render ==
    /\ rendered # downloads
    /\ Step
    /\ rendered' = downloads
    /\ Install(Commit(World, movies))
    /\ UNCHANGED <<blobs, deleting, clearing>>
    /\ Observe

\* ------------------------------------------------------- page reload
\* localStorage.setItem('downloads', JSON.stringify(downloads)) runs after every
\* render whose `downloads` changed: the stored value is the rendered one.
Persisted == rendered

\* useState initializer: saved ? JSON.parse(saved) : [].  The items hold
\* strings and finite numbers only, which JSON.parse(JSON.stringify(x)) keeps.
LoadDownloads(saved) == saved

\* an executeDownload invocation of the page that was unloaded
Unloaded(t) == IF t.pc = "done" THEN t ELSE Ended(t, "unloaded")

\* The user reloads the page: the component is mounted again with the stored
\* metadata, an empty handle map and no asynchronous work of the old page;
\* the blob store keeps its contents.  The Queue Processor runs after the
\* first render.
Restart ==
    LET loaded == LoadDownloads(Persisted)
        w == [dl  |-> loaded,
              ref |-> [m \in Movies |-> NoController],
              xf  |-> [t \in 1..Len(transfers) |-> Unloaded(transfers[t])]]
    IN  /\ userOps < MaxUserOps /\ userOps' = userOps + 1 /\ UNCHANGED faults
        /\ movies' = INITIAL_MOVIES
        /\ rendered' = loaded
        /\ Install(Commit(w, INITIAL_MOVIES))
        /\ deleting' = {}
        /\ clearing' = {}
        /\ exporting' = {}
        /\ exportToast' = "none"
        /\ UNCHANGED blobs
        /\ History([i \in 1..Len(loaded) |-> loaded[i].movieId], Aged(mark))

\* ------------------------------------- executeDownload continuations
Running(t) == t \in 1..Len(transfers) /\ transfers[t].pc # "done"

\* fetch resolves with a response that has a body
FetchResolve(t) ==
    /\ Step
    /\ Running(t) /\ transfers[t].pc = "fetch"
    /\ LET total == ContentLength(transfers[t].movie)
       IN  /\ transfers' = [transfers EXCEPT ![t].pc = "read", ![t].totalLength = total]
           /\ downloads' = IF total > 0
                           THEN SetTotal(downloads, transfers[t].movie, ToMB(total))
                           ELSE downloads
    /\ UNCHANGED <<rendered, activeDownloadsRef, blobs, deleting, clearing>>
    /\ Observe

\* fetch or reader.read() rejects, or response.body is missing
TransferError(t) ==
    /\ Fault
    /\ Running(t) /\ transfers[t].pc \in {"fetch", "read"}
    /\ downloads' = FailedUpdate(downloads, transfers[t].movie)
    /\ activeDownloadsRef' = FinallyRelease(activeDownloadsRef, transfers[t].movie)
    /\ transfers' = [transfers EXCEPT ![t] = Ended(transfers[t], "error")]
    /\ UNCHANGED <<rendered, blobs, deleting, clearing>>
    /\ Observe

\* reader.read() delivers a chunk; `publish` is (now - lastTime > 800)
ReadChunk(t, publish) ==
    /\ Step
    /\ Running(t) /\ transfers[t].pc = "read"
    /\ transfers[t].receivedLength < BodyLength(transfers[t].movie)
    /\ LET received == transfers[t].receivedLength + ChunkBytes(transfers[t].movie)
       IN  /\ transfers' = [transfers EXCEPT ![t].receivedLength = received]
           /\ downloads' = IF publish
                           THEN Publish(downloads, transfers[t].movie, received, transfers[t].totalLength)
                           ELSE downloads
    /\ UNCHANGED <<rendered, activeDownloadsRef, blobs, deleting, clearing>>
    /\ Observe

\* mutant of ReadDone: the entry is marked 'completed' before saveVideo is awaited
ReadDoneCompletesEarly(t) ==
    /\ Step
    /\ Running(t) /\ transfers[t].pc = "read"
    /\ transfers[t].receivedLength = BodyLength(transfers[t].movie)
    /\ transfers' = [transfers EXCEPT ![t].pc = "save"]
    /\ downloads' = Completed(downloads, transfers[t].movie)
    /\ UNCHANGED <<rendered, activeDownloadsRef, blobs, deleting, clearing>>
    /\ Observe

\* reader.read() reports done: the blob is built and saveVideo is called
ReadDone(t) ==
    /\ Step
    /\ Running(t) /\ transfers[t].pc = "read"
    /\ transfers[t].receivedLength = BodyLength(transfers[t].movie)
    /\ transfers' = [transfers EXCEPT ![t].pc = "save"]
    /\ UNCHANGED <<downloads, rendered, activeDownloadsRef, blobs, deleting, clearing>>
    /\ Observe

\* saveVideo resolves: the blob store holds the blob
SaveResolve(t) ==
    /\ Step
    /\ Running(t) /\ transfers[t].pc = "save"
    /\ blobs' = [blobs EXCEPT ![transfers[t].movie] = transfers[t].receivedLength]
    /\ transfers' = [transfers EXCEPT ![t].pc = "estimate"]
    /\ UNCHANGED <<downloads, rendered, activeDownloadsRef, deleting, clearing>>
    /\ Observe

\* saveVideo rejects (quota exceeded, storage unavailable)
SaveReject(t) ==
    /\ Fault
    /\ Running(t) /\ transfers[t].pc = "save"
    /\ downloads' = FailedUpdate(downloads, transfers[t].movie)
    /\ activeDownloadsRef' = FinallyRelease(activeDownloadsRef, transfers[t].movie)
    /\ transfers' = [transfers EXCEPT ![t] = Ended(transfers[t], "storage")]
    /\ UNCHANGED <<rendered, blobs, deleting, clearing>>
    /\ Observe

\* updateStorageEstimate resolves: status 'completed', then finally
Complete(t) ==
    /\ Step
    /\ Running(t) /\ transfers[t].pc = "estimate"
    /\ downloads' = Completed(downloads, transfers[t].movie)
    /\ activeDownloadsRef' = FinallyRelease(activeDownloadsRef, transfers[t].movie)
    /\ transfers' = [transfers EXCEPT ![t] = Ended(transfers[t], "completed")]
    /\ UNCHANGED <<rendered, blobs, deleting, clearing>>
    /\ Observe

\* -------------------------------------- deleteDownload continuations
\* deleteVideo resolves; updateStorageEstimate is awaited next
DeleteVideoResolve(op) ==
    /\ Step
    /\ op \in deleting /\ op.pc = "deleteVideo"
    /\ blobs' = [blobs EXCEPT ![op.movieId] = NoBlob]
    /\ deleting' = (deleting \ {op}) \cup {[op EXCEPT !.pc = "estimate"]}
    /\ UNCHANGED <<downloads, rendered, activeDownloadsRef, transfers, clearing>>
    /\ Observe

\* mutant of DeleteVideoReject: the rejection ends deleteDownload
DeleteVideoRejectPropagates(op) ==
    /\ Fault
    /\ op \in deleting /\ op.pc = "deleteVideo"
    /\ deleting' = deleting \ {op}
    /\ UNCHANGED <<downloads, rendered, activeDownloadsRef, transfers, blobs, clearing>>
    /\ Observe

\* deleteVideo rejects: the catch logs, the function goes on
DeleteVideoReject(op) ==
    /\ Fault
    /\ op \in deleting /\ op.pc = "deleteVideo"
    /\ deleting' = deleting \ {op}
    /\ downloads' = IF op.removeMetadata THEN RemoveEntry(downloads, op.movieId) ELSE downloads
    /\ UNCHANGED <<rendered, activeDownloadsRef, transfers, blobs, clearing>>
    /\ History(requestOrder, AfterDelete(op, "deleteFailed"))

\* updateStorageEstimate resolves; if (removeMetadata) the entry is filtered out
DeleteFinish(op) ==
    /\ Step
    /\ op \in deleting /\ op.pc = "estimate"
    /\ deleting' = deleting \ {op}
    /\ downloads' = IF op.removeMetadata THEN RemoveEntry(downloads, op.movieId) ELSE downloads
    /\ UNCHANGED <<rendered, activeDownloadsRef, transfers, blobs, clearing>>
    /\ History(requestOrder, AfterDelete(op, "removed"))

\* -------------------------------------- clearCompleted continuations
\* one deleteVideo of the loop resolves
ClearDeleteResolve(op) ==
    /\ Step
    /\ op \in clearing /\ Len(op.todo) > 0
    /\ blobs' = [blobs EXCEPT ![Head(op.todo)] = NoBlob]
    /\ clearing' = (clearing \ {op}) \cup {[todo |-> Tail(op.todo)]}
    /\ UNCHANGED <<downloads, rendered, activeDownloadsRef, transfers, deleting>>
    /\ Observe

\* one deleteVideo of the loop rejects: nothing catches it, clearCompleted ends
ClearDeleteReject(op) ==
    /\ Fault
    /\ op \in clearing /\ Len(op.todo) > 0
    /\ clearing' = clearing \ {op}
    /\ UNCHANGED <<downloads, rendered, activeDownloadsRef, transfers, blobs, deleting>>
    /\ Observe

\* the loop is over and updateStorageEstimate resolves
ClearFinish(op) ==
    /\ Step
    /\ op \in clearing /\ Len(op.todo) = 0
    /\ clearing' = clearing \ {op}
    /\ downloads' = RemoveCompleted(downloads)
    /\ UNCHANGED <<rendered, activeDownloadsRef, transfers, blobs, deleting>>
    /\ Observe

Next ==
    \/ \E m \in movies : RequestDownload(m)
    \/ \E m \in movies : PauseDownload(m)
    \/ \E m \in movies : DeleteDownload(m)
    \/ ClearCompleted
    \/ \E m \in movies : HandleExport(m)
    \/ \E m \in exporting : ExportResolve(m)
    \/ \E m \in exporting : ExportReject(m)
    \/ Render
    \/ Restart
    \/ \E t \in 1..MaxAttempts : FetchResolve(t)
    \/ \E t \in 1..MaxAttempts : TransferError(t)
    \/ \E t \in 1..MaxAttempts, publish \in BOOLEAN : ReadChunk(t, publish)
    \/ \E t \in 1..MaxAttempts : ReadDone(t)
    \/ \E t \in 1..MaxAttempts : SaveResolve(t)
    \/ \E t \in 1..MaxAttempts : SaveReject(t)
    \/ \E t \in 1..MaxAttempts : Complete(t)
    \/ \E op \in deleting : DeleteVideoResolve(op)
    \/ \E op \in deleting : DeleteVideoReject(op)
    \/ \E op \in deleting : DeleteFinish(op)
    \/ \E op \in clearing : ClearDeleteResolve(op)
    \/ \E op \in clearing : ClearDeleteReject(op)
    \/ \E op \in clearing : ClearFinish(op)

Spec == Init /\ [][Next]_vars
SpecFull == InitFull /\ [][Next]_vars

\* The program with a user who requests downloads and reloads the page but
\* neither pauses, cancels, removes, clears nor exports.
NextLive ==
    \/ \E m \in movies : RequestDownload(m)
    \/ Render
    \/ Restart
    \/ \E t \in 1..MaxAttempts : FetchResolve(t)
    \/ \E t \in 1..MaxAttempts : TransferError(t)
    \/ \E t \in 1..MaxAttempts, publish \in BOOLEAN : ReadChunk(t, publish)
    \/ \E t \in 1..MaxAttempts : ReadDone(t)
    \/ \E t \in 1..MaxAttempts : SaveResolve(t)
    \/ \E t \in 1..MaxAttempts : SaveReject(t)
    \/ \E t \in 1..MaxAttempts : Complete(t)

\* the next step of attempt t: its pending promise settles (the network and
\* the blob store answer) and the continuation runs
Advance(t) ==
    \/ FetchResolve(t)
    \/ \E publish \in BOOLEAN : ReadChunk(t, publish)
    \/ ReadDone(t)
    \/ SaveResolve(t)
    \/ Complete(t)

\* React renders every scheduled update and runs its effects; every started
\* transfer terminates.  The user's steps are not forced.
Fairness ==
    /\ WF_vars(Render)
    /\ \A t \in 1..MaxAttempts : WF_vars(Advance(t))

SpecLive == InitFull /\ [][NextLive]_vars /\ Fairness

\* ================================================================ claims
Entry(m) == Find(downloads, m)
Attempts == 1..Len(transfers)
\* attempts that still fetch, read or write the blob
Transferring == {t \in Attempts : transfers[t].pc \in {"fetch", "read", "save"}}
Before(order, x, y) ==
    \E i, j \in 1..Len(order) : i < j /\ order[i] = x /\ order[j] = y

\* C1: in every reachable state at most one entry of the downloads collection
\* has status 'downloading'.
SingleDownloading == activeCount(downloads) <= 1

\* C2: the admit-or-queue decision of requestDownload is taken on the state it
\* writes to: an untracked movie whose entry is created while another entry is
\* 'downloading' gets 'queued', and gets 'downloading' only when none is.
AdmissionIsAtomic ==
    [][\A m \in Movies :
          (~HasEntry(downloads, m) /\ ~HasEntry(rendered, m) /\ HasEntry(downloads', m))
          => (StatusOf(downloads', m) = "downloading" <=> activeCount(downloads) = 0)]_vars

\* C3: queue admission is FIFO: an entry that goes from 'queued' to
\* 'downloading' is the earliest of the queued entries in insertion order, so
\* it was requested before every entry that is still 'queued' after the step.
QueueIsFifo ==
    [][\A m \in Movies :
          (StatusOf(downloads, m) = "queued" /\ StatusOf(downloads', m) = "downloading")
          => \A y \in Movies :
                (y # m /\ StatusOf(downloads', y) = "queued") => Before(requestOrder', m, y)]_vars

\* C3 witness: the Queue Processor has promoted a movie while a movie requested
\* later is still queued.
QueueIsFifoWitness ==
    \E t \in Attempts, y \in Movies :
        /\ transfers[t].by = "queue"
        /\ StatusOf(downloads, transfers[t].movie) = "downloading"
        /\ StatusOf(downloads, y) = "queued"
        /\ Before(requestOrder, transfers[t].movie, y)

\* C4: after pauseDownload(X) directly followed by requestDownload(X), no two
\* transfers run at once.
ResumeRunsAlone ==
    \A m \in Movies : mark[m] = "resumed" => Cardinality(Transferring) <= 1

\* C5: once deleteDownload(X), called while X was 'downloading', has finished,
\* the blob store holds no blob for X until X is requested again.
RemovedHasNoBlob ==
    \A m \in Movies : mark[m] = "removed" => blobs[m] = NoBlob

\* C6: in the step that completes a transfer of X, X gets status 'completed'
\* and progress 100, a blob for X is stored, and the blob's size equals the
\* downloaded size of X's entry.
CompletionMatchesBlob ==
    [][\A m \in Movies :
          (StatusOf(downloads, m) # "completed" /\ StatusOf(downloads', m) = "completed")
          => /\ Find(downloads', m).progress = 100
             /\ blobs'[m] # NoBlob
             /\ blobs'[m] = Find(downloads', m).downloadedSizeMB * BytesPerMB]_vars

\* C7: after pauseDownload(X) on an in-flight transfer, and until X is
\* requested again, the blob store holds no blob for X.
PausedHasNoBlob ==
    \A m \in Movies : mark[m] \in {"pausing", "paused"} => blobs[m] = NoBlob

\* C8: requestDownload on a 'failed' entry replaces it by a fresh entry that is
\* 'downloading' or 'queued'.
FailedRequestIsFresh ==
    \A m \in movies :
        (StatusOf(downloads, m) = "failed" /\ StatusOf(rendered, m) = "failed")
        => StatusOf(RequestOutcome(m).dl, m) \in {"downloading", "queued"}

\* C9: the downloads collection holds at most one entry per movie id.
OneEntryPerMovie ==
    \A i, j \in 1..Len(downloads) : i # j => downloads[i].movieId # downloads[j].movieId

\* C9 witness: a paused movie was requested again and is tracked, next to
\* another tracked movie.
OneEntryPerMovieWitness ==
    \E m \in Movies :
        /\ mark[m] = "resumed"
        /\ HasEntry(downloads, m)
        /\ Len(downloads) > 1

\* C10: an entry becomes 'completed' only in the step of an attempt whose
\* saveVideo has resolved, and an attempt whose saveVideo rejects leaves the
\* entry, if it is still tracked, 'failed'.  (A page reload shows the stored
\* collection again; it is not a status transition.)
CompletedOnlyAfterSave ==
    [][/\ \A m \in Movies :
             (StatusOf(downloads, m) # "completed" /\ StatusOf(downloads', m) = "completed"
              /\ ~Restart)
             => \E t \in Attempts :
                   /\ transfers[t].movie = m
                   /\ transfers[t].pc = "estimate"
                   /\ transfers'[t].outcome = "completed"
       /\ \A t \in Attempts :
             (transfers[t].pc = "save" /\ transfers'[t].outcome = "storage")
             => StatusOf(downloads', transfers[t].movie) \in {"failed", "none"}]_vars

\* C10 witness: a saveVideo has rejected and the entry is 'failed'.
CompletedOnlyAfterSaveWitness ==
    \E t \in Attempts :
        /\ transfers[t].outcome = "storage"
        /\ StatusOf(downloads, transfers[t].movie) = "failed"

\* C11: after a page reload no loaded entry is 'downloading': every entry that
\* was stored as 'downloading' is 'paused' in the first render.
LoadedNotDownloading ==
    [][Restart =>
          /\ activeCount(rendered') = 0
          /\ \A m \in Movies :
                StatusOf(Persisted, m) = "downloading" => StatusOf(rendered', m) = "paused"]_vars

PauseOnlyWhenDownloading ==
    \A m \in movies :
        (HasEntry(rendered, m) /\ StatusOf(downloads, m) \in {"queued", "failed", "completed", "paused"})
        => pauseDownload(World, m).dl = downloads

\* C14: requestDownload on a movie whose entry is 'downloading', 'queued' or
\* 'completed' changes neither the downloads collection nor the handle map,
\* and starts no transfer.
RequestOnTrackedIsNoOp ==
    \A m \in movies :
        StatusOf(downloads, m) \in {"downloading", "queued", "completed"}
        => RequestOutcome(m) = World

\* C15: a clearCompleted invocation whose deleteVideo rejects goes on with the
\* remaining completed items: it is still in progress after the rejection.
ClearSwallowsDeleteFailure ==
    [][\A op \in clearing :
          ClearDeleteReject(op) => [todo |-> Tail(op.todo)] \in clearing']_vars

\* C16: when the deleteVideo of a deleteDownload(X) with metadata removal
\* rejects, the invocation goes on to its end and X's entry is removed.
DeleteFailureStillRemoves ==
    [][\A op \in deleting :
          (op.removeMetadata /\ DeleteVideoReject(op))
          => (op \notin deleting' /\ ~HasEntry(downloads', op.movieId))]_vars

\* C16 witness: a deleteDownload(X) whose deleteVideo rejected has returned and
\* X has no entry.
DeleteFailureStillRemovesWitness ==
    \E m \in Movies : mark[m] = "deleteFailed" /\ ~HasEntry(downloads, m)

\* C17: once deleteDownload(X), called while X was 'queued', has finished, no
\* transfer of X is running and the blob store holds no blob for X, until X is
\* requested again.
CancelledQueuedNeverDownloads ==
    \A m \in Movies :
        mark[m] = "cancelled"
        => /\ blobs[m] = NoBlob
           /\ \A t \in Attempts : transfers[t].movie = m => transfers[t].pc = "done"

\* C18: when a clearCompleted invocation finishes, every entry it removes has
\* no blob in the blob store, and every entry that is not 'completed' is kept
\* as it is.
ClearRemovesBlobAndEntry ==
    [][\A op \in clearing :
          ClearFinish(op)
          => /\ \A m \in Movies :
                   (HasEntry(downloads, m) /\ ~HasEntry(downloads', m)) => blobs'[m] = NoBlob
             /\ \A i \in 1..Len(downloads) :
                   downloads[i].status # "completed"
                   => \E j \in 1..Len(downloads') : downloads'[j] = downloads[i]]_vars

\* C19: a requestDownload(X) step on a 'paused' X deletes X's stored data and
\* leaves X's entry last in the collection with progress and sizes 0; the
\* entry is 'queued' when another entry is 'downloading', and 'downloading'
\* when none is and none is queued.
PausedRequestIsFresh ==
    [][\A m \in movies :
          (StatusOf(downloads, m) = "paused" /\ StatusOf(rendered, m) = "paused"
           /\ userOps' = userOps + 1 /\ RequestDownload(m))
          => /\ DeleteOp(m, FALSE) \in deleting'
             /\ Len(downloads') > 0
             /\ LET item == downloads'[Len(downloads')]
                IN  /\ item.movieId = m
                    /\ item.progress = 0 /\ item.totalSizeMB = 0 /\ item.downloadedSizeMB = 0
                    /\ activeCount(downloads) > 0 => item.status = "queued"
                    /\ (activeCount(downloads) = 0 /\ ~HasQueued(downloads))
                       => item.status = "downloading"]_vars

\* C20: an entry that is 'completed' stays 'completed' in every step that keeps
\* it in the collection; only a step that finishes a deleteDownload or a
\* clearCompleted removes it (a page reload, which shows the stored
\* collection, is left aside).
CompletedIsTerminal ==
    [][\A m \in Movies :
          (StatusOf(downloads, m) = "completed" /\ ~Restart)
          => \/ StatusOf(downloads', m) = "completed"
             \/ /\ ~HasEntry(downloads', m)
                /\ \/ \E op \in deleting : op.removeMetadata /\ op.movieId = m /\ op \notin deleting'
                   \/ \E op \in clearing : op \notin clearing']_vars

\* the statuses of the collection, in array order
Statuses(dl) == [i \in 1..Len(dl) |-> dl[i].status]

\* three requests for three movies were the only user actions and nothing failed
ThreeRequested == userOps = 3 /\ faults = 0 /\ Len(downloads) = 3

\* C21: after requestDownload of A, B, C the statuses are [downloading, queued,
\* queued] while A's transfer runs; once A's transfer has completed and the
\* Queue Processor has run they are [completed, downloading, queued]; a
\* pauseDownload(B) step then makes them [completed, paused, downloading] and
\* a transfer of C is running.
ScenarioABC ==
    [][/\ (ThreeRequested /\ Len(transfers) = 1 /\ transfers[1].outcome = "running")'
          => Statuses(downloads') = <<"downloading", "queued", "queued">>
       /\ (ThreeRequested /\ Len(transfers) = 2 /\ transfers[1].outcome = "completed"
           /\ transfers[2].outcome = "running")'
          => Statuses(downloads') = <<"completed", "downloading", "queued">>
       /\ (ThreeRequested /\ Statuses(downloads) = <<"completed", "downloading", "queued">>
           /\ PauseDownload(downloads[2].movieId))
          => /\ Statuses(downloads') = <<"completed", "paused", "downloading">>
             /\ \E t \in 1..Len(transfers') :
                   /\ transfers'[t].movie = downloads[3].movieId
                   /\ transfers'[t].pc = "fetch"
                   /\ activeDownloadsRef'[downloads[3].movieId] = t]_vars

\* C21 witness: the scenario has run to its end.
ScenarioABCWitness ==
    /\ userOps = 4 /\ faults = 0
    /\ Statuses(downloads) = <<"completed", "paused", "downloading">>
    /\ \E t \in Attempts : transfers[t].by = "queue" /\ mark[transfers[t].movie] = "pausing"

OneAttemptPerMovie ==
    \A m \in Movies :
        /\ Cardinality({t \in Attempts : transfers[t].movie = m /\ transfers[t].pc # "done"}) <= 1
        /\ activeDownloadsRef[m] # NoController => transfers[activeDownloadsRef[m]].pc # "done"

\* C24: a handle is registered for a movie id only while the movie's entry is
\* 'downloading'.
HandleOnlyWhileDownloading ==
    \A m \in Movies :
        activeDownloadsRef[m] # NoController => StatusOf(downloads, m) = "downloading"

\* a status change the state machine allows; a re-request of a paused or
\* failed movie may also put it in the queue
Allowed(from, to) ==
    \/ from = to
    \/ from = "queued" /\ to = "downloading"
    \/ from = "downloading" /\ to \in {"completed", "failed", "paused"}
    \/ from \in {"paused", "failed"} /\ to \in {"downloading", "queued"}

\* C25: in every step other than a page reload, the status of a movie that is
\* tracked before and after the step changes as the state machine allows.
StatusFollowsStateMachine ==
    [][\A m \in Movies :
          (HasEntry(downloads, m) /\ HasEntry(downloads', m) /\ ~Restart)
          => Allowed(StatusOf(downloads, m), StatusOf(downloads', m))]_vars

\* C26: the progress of every entry is within 0..100.
ProgressInRange ==
    \A i \in 1..Len(downloads) : downloads[i].progress >= 0 /\ downloads[i].progress <= 100

\* C27: the step in which an attempt of X ends by completing or by an error
\* changes neither the status of X's entry nor X's registered handle when a
\* later attempt of X is running.
OldAttemptLeavesNewAlone ==
    [][\A t, u \in Attempts :
          (/\ t < u
           /\ transfers[t].movie = transfers[u].movie
           /\ transfers[u].pc # "done"
           /\ transfers[t].pc # "done"
           /\ transfers'[t].outcome \in {"completed", "error", "storage"})
          => /\ StatusOf(downloads', transfers[u].movie) = StatusOf(downloads, transfers[u].movie)
             /\ activeDownloadsRef'[transfers[u].movie] = activeDownloadsRef[transfers[u].movie]]_vars

\* C29: after pauseDownload(X) on an in-flight transfer, and until X is
\* requested again, X's entry, while it is tracked, is 'paused' with speed 0.
PausedStaysPaused ==
    \A m \in Movies :
        (mark[m] \in {"pausing", "paused"} /\ HasEntry(downloads, m))
        => (Entry(m).status = "paused" /\ Entry(m).speed = 0)

\* the run has used up the attempts or the user steps that are explored
BoundReached == Len(transfers) = MaxAttempts \/ userOps = MaxUserOps

\* C28: under fairness, with every started transfer terminating and the user
\* neither removing nor cancelling, every 'queued' entry eventually becomes
\* 'downloading' (unless a bound of the exploration is reached first).
QueuedEventuallyDownloads ==
    \A m \in Movies :
        (StatusOf(downloads, m) = "queued")
        ~> (StatusOf(downloads, m) = "downloading" \/ BoundReached)

\* no transfer, deleteDownload or clearCompleted is in flight
Quiescent ==
    /\ deleting = {} /\ clearing = {}
    /\ \A t \in Attempts : transfers[t].pc = "done"

\* C30: when nothing has failed and no transfer, deleteDownload or
\* clearCompleted is in flight, every movie that has a blob has an entry.
NoOrphanedBlobs ==
    (faults = 0 /\ Quiescent)
    => \A m \in Movies : blobs[m] # NoBlob => HasEntry(downloads, m)

====
